---- MODULE Spec2Model ----
(***************************************************************************)
(* State-machine model of web/signature_manager.js: the SignatureManager   *)
(* (add-signature dialog: tabs, shared description, draw / image capture,  *)
(* commit and persistence).  Every handler of the class is one action;     *)
(* every awaited call is a suspension point with its own resumption        *)
(* action.                                                                 *)
(***************************************************************************)
EXTENDS Integers, Sequences, FiniteSets, TLC

\* ------------------------------------------------------------------ bounds
MaxOpens == 1
MaxPendingAdds == 1
MaxPendingExtractions == 2
MaxExtractions == 2
MaxPendingL10n == 1
MaxStrokes == 2
MaxPoints == 4
\* Host editors that exist; the sessions of a run that opens the dialog again.
MaxEditors == 2
\* Promises made by loadSignatures, and calls of it that await one.
MaxLoads == 2
MaxLoadWaiters == 2

\* ------------------------------------------------------ program constants
DEFAULT_HEIGHT_IN_PAGE == 40

\* --------------------------------------------------------------- domains
Null == <<>>
Some(v) == <<v>>

NoTab == "null"
Tabs == {"type", "draw", "image"}

\* What the user can type into the typed-signature input / description.
Text == {"", "a", "b"}
\* The string the l10n service returns for l10nDescription.signature.
L10nSignature == "Signature"
\* `description.value` read on the container element handed to the
\* constructor (an element without a value property).
Undefined == "undefined"

VARIABLES
  \* --- overlay manager / dialog lifecycle
  overlayActive,          \* overlayManager.active === dialog
  closeQueued,            \* the dialog's "close" event is queued
  openStage,              \* position of the async open(): idle | isFull | overlay
  opens,                  \* number of open() calls so far (id of the last editor)
  \* --- SignatureManager fields
  currentEditor,          \* #currentEditor: 0 (null) or an editor id
  uiManager,              \* #uiManager is set
  tabsToAltText,          \* #tabsToAltText: Null or Some([tab -> string])
  currentTab,             \* #currentTab
  currentTabAC,           \* #currentTabAC: the tab whose listeners are live
  hasDescriptionChanged,  \* #hasDescriptionChanged
  description,            \* #description.value
  clearDescriptionDisabled, \* #clearDescription.disabled
  typeInput,              \* #typeInput.value
  buttonsDisabled,        \* #addButton.disabled = #clearButton.disabled = #saveContainer[disabled]
  saveCheckbox,           \* #saveCheckbox.checked
  fullStorage,            \* #saveContainer has class fullStorage
  \* --- draw tab
  drawCurves,             \* #drawCurves: Null or Some([width, height, thickness, curves])
  drawPath,               \* #drawPath: Null or Some([strokeWidth, d])
  drawPathString,         \* #drawPathString: sequence of path commands
  drawPlaceholderHidden,  \* #drawPlaceholder.hidden
  drawThickness,          \* #drawThickness.value
  drawListener,           \* element carrying the live pointerdown listener
  currentPointerId,       \* closure variable of #initDrawTab (0 is NaN)
  strokeListeners,        \* live pointermove/pointerup listeners (finishDrawAC)
  \* --- image tab
  extractedSignatureData, \* #extractedSignatureData
  imagePath,              \* #imagePath: Null or Some(extraction id)
  imageSVG,               \* path children of #imageSVG (extraction ids)
  imagePlaceholderHidden, \* #imagePlaceholder.hidden
  waiting,                \* dialog has class "waiting"
  errorBarHidden,         \* #errorBar.hidden
  pickerOpen,             \* the file chooser of #imagePicker is showing
  extractions,            \* number of #extractSignature calls so far
  pendingExtractions,     \* #extractSignature calls awaiting getFromFile
  \* --- asynchronous steps, collaborators
  pendingL10n,            \* pending l10n.get(...) lookups of the draw tab
  pendingAdds,            \* #add calls suspended at compress / create
  storage,                \* records of the signature storage
  toolbar,                \* launcher entries before #addSignatureToolbarButton
  createCalls,            \* number of signatureStorage.create calls
  editors,                \* host editors: [state, calls, description]
  edit,                   \* the EditDescriptionDialog: its fields and controls
  loader,                 \* #loadSignaturesPromise, the promises made for it
                          \* and the loadSignatures calls that await them
  errors,                 \* the handlers that ended with an uncaught exception
  \* --- history
  lastOp,                 \* the handler that ran last
  leftDesc,               \* description shown when each other tab was last left
  descEdited,             \* the description was edited on the type tab since open
  diverged,               \* the type tab's description differs since an edit
  checkedAdds             \* number of add clicks made with the save box checked

lifeVars == <<overlayActive, closeQueued, openStage, opens, currentEditor, uiManager>>
tabVars == <<tabsToAltText, currentTab, currentTabAC>>
descVars == <<hasDescriptionChanged, description, clearDescriptionDisabled>>
drawVars == <<drawCurves, drawPath, drawPathString, drawPlaceholderHidden,
              drawThickness, drawListener, currentPointerId, strokeListeners>>
imageVars == <<extractedSignatureData, imagePath, imageSVG, imagePlaceholderHidden>>
bannerVars == <<waiting, errorBarHidden, pickerOpen>>
asyncVars == <<extractions, pendingExtractions, pendingL10n, pendingAdds>>
storeVars == <<storage, toolbar, createCalls>>
histVars == <<leftDesc, descEdited, diverged, checkedAdds>>

vars == <<lifeVars, tabVars, descVars, typeInput, buttonsDisabled, saveCheckbox,
          fullStorage, drawVars, imageVars, bannerVars, asyncVars, storeVars,
          editors, edit, loader, errors, lastOp, histVars>>

\* ------------------------------------------------------------------ Init
\* State after the constructor: field initialisers (lines 29-101) and the
\* initial DOM of the dialog (empty inputs, disabled controls).
EmptyTabsMap == [t \in Tabs |-> ""]

Init ==
  /\ overlayActive = FALSE
  /\ closeQueued = FALSE
  /\ openStage = "idle"
  /\ opens = 0
  /\ currentEditor = 0
  /\ uiManager = FALSE
  /\ tabsToAltText = Null
  /\ currentTab = NoTab
  /\ currentTabAC = NoTab
  /\ hasDescriptionChanged = FALSE
  /\ description = ""
  /\ clearDescriptionDisabled = TRUE
  /\ typeInput = ""
  /\ buttonsDisabled = TRUE
  /\ saveCheckbox = FALSE
  /\ fullStorage = FALSE
  /\ drawCurves = Null
  /\ drawPath = Null
  /\ drawPathString = <<>>
  /\ drawPlaceholderHidden = FALSE
  /\ drawThickness = 1
  /\ drawListener = "none"
  /\ currentPointerId = 0
  /\ strokeListeners = FALSE
  /\ extractedSignatureData = Null
  /\ imagePath = Null
  /\ imageSVG = <<>>
  /\ imagePlaceholderHidden = FALSE
  /\ waiting = FALSE
  /\ errorBarHidden = TRUE
  /\ pickerOpen = FALSE
  /\ extractions = 0
  /\ pendingExtractions = {}
  /\ pendingL10n = 0
  /\ pendingAdds = <<>>
  /\ storage = {}
  /\ toolbar = <<>>
  /\ createCalls = 0
  /\ editors = [e \in 1..MaxEditors |->
                   [state |-> "absent", calls |-> <<>>, description |-> ""]]
  /\ edit = [active |-> FALSE, closeQueued |-> FALSE, uiManager |-> FALSE,
             currentEditor |-> 0, previousDescription |-> Undefined,
             description |-> "", clearDisabled |-> TRUE,
             updateDisabled |-> TRUE, ariaLabel |-> "", signatureSVG |-> 0]
  /\ loader = [promise |-> 0, promises |-> <<>>, waiters |-> <<>>]
  /\ errors = {}
  /\ lastOp = "init"
  /\ leftDesc = EmptyTabsMap
  /\ descEdited = FALSE
  /\ diverged = FALSE
  /\ checkedAdds = 0


\* ------------------------------------------------- the manager as a record
\* The handlers below are sequential code: each is a function from the
\* state before to the state after, over this record of all fields.
Fields ==
  [ overlayActive |-> overlayActive, closeQueued |-> closeQueued,
    openStage |-> openStage, opens |-> opens,
    currentEditor |-> currentEditor, uiManager |-> uiManager,
    tabsToAltText |-> tabsToAltText, currentTab |-> currentTab,
    currentTabAC |-> currentTabAC,
    hasDescriptionChanged |-> hasDescriptionChanged,
    description |-> description,
    clearDescriptionDisabled |-> clearDescriptionDisabled,
    typeInput |-> typeInput, buttonsDisabled |-> buttonsDisabled,
    saveCheckbox |-> saveCheckbox, fullStorage |-> fullStorage,
    drawCurves |-> drawCurves, drawPath |-> drawPath,
    drawPathString |-> drawPathString,
    drawPlaceholderHidden |-> drawPlaceholderHidden,
    drawThickness |-> drawThickness, drawListener |-> drawListener,
    currentPointerId |-> currentPointerId,
    strokeListeners |-> strokeListeners,
    extractedSignatureData |-> extractedSignatureData,
    imagePath |-> imagePath, imageSVG |-> imageSVG,
    imagePlaceholderHidden |-> imagePlaceholderHidden,
    waiting |-> waiting, errorBarHidden |-> errorBarHidden,
    pickerOpen |-> pickerOpen,
    extractions |-> extractions, pendingExtractions |-> pendingExtractions,
    pendingL10n |-> pendingL10n, pendingAdds |-> pendingAdds,
    storage |-> storage, toolbar |-> toolbar, createCalls |-> createCalls,
    editors |-> editors, edit |-> edit, loader |-> loader, errors |-> errors ]

Becomes(s) ==
  /\ overlayActive' = s.overlayActive
  /\ closeQueued' = s.closeQueued
  /\ openStage' = s.openStage
  /\ opens' = s.opens
  /\ currentEditor' = s.currentEditor
  /\ uiManager' = s.uiManager
  /\ tabsToAltText' = s.tabsToAltText
  /\ currentTab' = s.currentTab
  /\ currentTabAC' = s.currentTabAC
  /\ hasDescriptionChanged' = s.hasDescriptionChanged
  /\ description' = s.description
  /\ clearDescriptionDisabled' = s.clearDescriptionDisabled
  /\ typeInput' = s.typeInput
  /\ buttonsDisabled' = s.buttonsDisabled
  /\ saveCheckbox' = s.saveCheckbox
  /\ fullStorage' = s.fullStorage
  /\ drawCurves' = s.drawCurves
  /\ drawPath' = s.drawPath
  /\ drawPathString' = s.drawPathString
  /\ drawPlaceholderHidden' = s.drawPlaceholderHidden
  /\ drawThickness' = s.drawThickness
  /\ drawListener' = s.drawListener
  /\ currentPointerId' = s.currentPointerId
  /\ strokeListeners' = s.strokeListeners
  /\ extractedSignatureData' = s.extractedSignatureData
  /\ imagePath' = s.imagePath
  /\ imageSVG' = s.imageSVG
  /\ imagePlaceholderHidden' = s.imagePlaceholderHidden
  /\ waiting' = s.waiting
  /\ errorBarHidden' = s.errorBarHidden
  /\ pickerOpen' = s.pickerOpen
  /\ extractions' = s.extractions
  /\ pendingExtractions' = s.pendingExtractions
  /\ pendingL10n' = s.pendingL10n
  /\ pendingAdds' = s.pendingAdds
  /\ storage' = s.storage
  /\ toolbar' = s.toolbar
  /\ createCalls' = s.createCalls
  /\ editors' = s.editors
  /\ edit' = s.edit
  /\ loader' = s.loader
  /\ errors' = s.errors

\* An uncaught TypeError in handler `who`: the rest of it does not run.
Throw(s, who) == [s EXCEPT !.errors = @ \cup {who}]

\* Remove the first occurrence of v from sequence q (Element.remove()).
RemoveChild(q, v) ==
  IF \E i \in 1..Len(q) : q[i] = v
  THEN LET i == CHOOSE j \in 1..Len(q) :
                  q[j] = v /\ \A k \in 1..(j - 1) : q[k] # v
       IN SubSeq(q, 1, i - 1) \o SubSeq(q, i + 1, Len(q))
  ELSE q

\* ---------------------------------------------------------- tab lifecycle
\* #resetCommon (lines 253-257); Map.set on a null map throws.
resetCommon(s) ==
  IF s.tabsToAltText = Null
  THEN Throw([s EXCEPT !.hasDescriptionChanged = FALSE, !.description = ""],
             "resetCommon")
  ELSE [s EXCEPT !.hasDescriptionChanged = FALSE,
                 !.description = "",
                 !.tabsToAltText =
                    IF s.currentTab \in Tabs
                    THEN Some([s.tabsToAltText[1] EXCEPT ![s.currentTab] = ""])
                    ELSE s.tabsToAltText]

\* #resetTab (lines 259-279)
resetTab(s, name) ==
  CASE name = "type" -> [s EXCEPT !.typeInput = ""]
    [] name = "draw" -> [s EXCEPT !.drawCurves = Null,
                                  !.drawPathString = <<>>,
                                  !.drawPath = Null,
                                  !.drawPlaceholderHidden = FALSE,
                                  !.drawThickness = 1]
    [] name = "image" -> [s EXCEPT !.imagePlaceholderHidden = FALSE,
                                   !.imageSVG =
                                      IF s.imagePath = Null THEN s.imageSVG
                                      ELSE RemoveChild(s.imageSVG, s.imagePath[1]),
                                   !.imagePath = Null]
    [] OTHER -> s

\* #disableButtons (lines 314-321); value is the truthiness of the argument.
disableButtons(s, value) == [s EXCEPT !.buttonsDisabled = ~value]

\* #initTypeTab (lines 323-352): the input listeners it registers are the
\* actions TypeInput and DescriptionInput, live while currentTabAC = "type".
initTypeTab(s, reset) ==
  LET s1 == IF reset THEN resetTab(s, "type") ELSE s
  IN disableButtons(s1, s1.typeInput # "")

\* #initDrawTab (lines 354-492): a new closure (currentPointerId = NaN) and
\* the pointerdown listener on the svg or on the placeholder.
initDrawTab(s, reset) ==
  LET s1 == IF reset THEN resetTab(s, "draw") ELSE s
      s2 == disableButtons(s1, s1.drawPath # Null)
  IN [s2 EXCEPT !.currentPointerId = 0,
                !.drawListener =
                   IF s2.drawCurves # Null THEN "svg" ELSE "placeholder"]

\* #initImageTab (lines 494-579)
initImageTab(s, reset) ==
  LET s1 == IF reset THEN resetTab(s, "image") ELSE s
  IN disableButtons(s1, s1.imagePath # Null)

\* A variant of the abort that leaves the listeners of a stroke in place.
abortTabACKeepsStroke(s) ==
  [s EXCEPT !.currentTabAC = NoTab, !.drawListener = "none"]

\* #currentTabAC?.abort() (line 299, 839): every listener registered with the
\* signal of the running activation goes away.
abortTabAC(s) ==
  [s EXCEPT !.currentTabAC = NoTab, !.drawListener = "none",
            !.currentPointerId = 0, !.strokeListeners = FALSE]

\* A variant of #initTab that does not store the description of the tab it
\* leaves.
initTabStale(s, name) ==
  IF name # NoTab /\ s.currentTab = name THEN s
  ELSE IF s.tabsToAltText = Null THEN Throw(s, "initTab")
  ELSE
    LET s2 == IF name # NoTab THEN [s EXCEPT !.currentTab = name] ELSE s
        reset == (name = NoTab)
        s3 == IF reset THEN resetCommon(s2)
              ELSE [s2 EXCEPT !.description = s2.tabsToAltText[1][s2.currentTab]]
        s4 == [s3 EXCEPT !.clearDescriptionDisabled = (s3.description = "")]
        s5 == [abortTabAC(s4) EXCEPT !.currentTabAC = s4.currentTab]
    IN CASE s5.currentTab = "type" -> initTypeTab(s5, reset)
         [] s5.currentTab = "draw" -> initDrawTab(s5, reset)
         [] s5.currentTab = "image" -> initImageTab(s5, reset)
         [] OTHER -> s5

\* #initTab (lines 281-312); name = NoTab stands for null (reset).
initTab(s, name) ==
  IF name # NoTab /\ s.currentTab = name THEN s
  ELSE IF s.tabsToAltText = Null THEN Throw(s, "initTab")
  ELSE
    LET s1 == IF s.currentTab # NoTab
              THEN [s EXCEPT !.tabsToAltText =
                      Some([s.tabsToAltText[1] EXCEPT ![s.currentTab] = s.description])]
              ELSE s
        s2 == IF name # NoTab THEN [s1 EXCEPT !.currentTab = name] ELSE s1
        reset == (name = NoTab)
        s3 == IF reset THEN resetCommon(s2)
              ELSE [s2 EXCEPT !.description = s2.tabsToAltText[1][s2.currentTab]]
        s4 == [s3 EXCEPT !.clearDescriptionDisabled = (s3.description = "")]
        s5 == [abortTabAC(s4) EXCEPT !.currentTabAC = s4.currentTab]
    IN CASE s5.currentTab = "type" -> initTypeTab(s5, reset)
         [] s5.currentTab = "draw" -> initDrawTab(s5, reset)
         [] s5.currentTab = "image" -> initImageTab(s5, reset)
         [] OTHER -> s5


\* ------------------------------------------------------- dialog lifecycle
\* The dialog is shown and open() has clicked the type tab: user events reach
\* the dialog's controls (not while the file chooser is showing).
Interactive == overlayActive /\ openStage = "idle" /\ ~pickerOpen

\* OverlayManager.close(dialog): the dialog stops being the active overlay
\* and dialog.close() queues its "close" event.
overlayClose(s) == [s EXCEPT !.overlayActive = FALSE, !.closeQueued = TRUE]

\* OverlayManager.open(dialog): the dialog becomes the active overlay.
overlayOpen(s) == [s EXCEPT !.overlayActive = TRUE]

\* #finish (lines 828-832)
finish(s) == IF s.overlayActive THEN overlayClose(s) ELSE s

\* Editor.remove() of the host editor.
editorRemove(eds, e) == [eds EXCEPT ![e].state = "removed"]

\* The host editor's _drawId is null until addSignature has materialized it.
drawIdIsNull(eds, e) == eds[e].state # "materialized"

\* A variant of #close that never removes the host editor.
closeKeepsEditor(s) ==
  IF s.currentEditor = 0 THEN Throw(s, "close")
  ELSE
    LET s2 == [abortTabAC(s) EXCEPT !.uiManager = FALSE, !.currentEditor = 0]
        s3 == resetCommon(s2)
        s4 == resetTab(resetTab(resetTab(s3, "type"), "draw"), "image")
        s5 == disableButtons(s4, FALSE)
    IN IF s3.errors # s2.errors THEN s3
       ELSE [s5 EXCEPT !.currentTab = NoTab, !.tabsToAltText = Null]

\* #close (lines 834-851), the handler of the dialog's "close" event.
close(s) ==
  IF s.currentEditor = 0 THEN Throw(s, "close")
  ELSE
    LET s1 == IF drawIdIsNull(s.editors, s.currentEditor)
              THEN [s EXCEPT !.editors = editorRemove(s.editors, s.currentEditor)]
              ELSE s
        s2 == [abortTabAC(s1) EXCEPT !.uiManager = FALSE, !.currentEditor = 0]
        s3 == resetCommon(s2)
        s4 == resetTab(resetTab(resetTab(s3, "type"), "draw"), "image")
        s5 == disableButtons(s4, FALSE)
    IN IF s3.errors # s2.errors THEN s3
       ELSE [s5 EXCEPT !.currentTab = NoTab, !.tabsToAltText = Null]

\* open(): the part before `await this.#signatureStorage.isFull()`
\* (lines 805-813).  The host has created the placeholder editor.
OpenStart(maxOpens) ==
  /\ opens < maxOpens
  /\ ~overlayActive /\ ~closeQueued /\ openStage = "idle"
  /\ LET e == opens + 1
         s == Fields
     IN Becomes([s EXCEPT !.opens = e,
                          !.editors[e].state = "placeholder",
                          !.tabsToAltText =
                             IF s.tabsToAltText = Null THEN Some(EmptyTabsMap)
                             ELSE s.tabsToAltText,
                          !.uiManager = TRUE,
                          !.currentEditor = e,
                          !.openStage = "isFull"])

\* open(): isFull() has answered (lines 813-817); overlayManager.open shows
\* the dialog.
OpenStorageChecked(isStorageFull) ==
  /\ openStage = "isFull"
  /\ Becomes(overlayOpen([Fields EXCEPT !.fullStorage = isStorageFull,
                                        !.saveCheckbox = ~isStorageFull,
                                        !.openStage = "overlay"]))

\* The click handler of the tab buttons (tabCallback, lines 220-234).
tabCallback(s, name) == initTab(s, name)

\* open(): after overlayManager.open (lines 819-821): tabType.click().
OpenShown ==
  /\ openStage = "overlay"
  /\ Becomes(tabCallback([Fields EXCEPT !.openStage = "idle"], "type"))

\* Click on the cancel button: #cancel (lines 824-826).
Cancel ==
  /\ Interactive
  /\ Becomes(finish(Fields))

\* destroy() (lines 907-910), or the user dismissing the modal dialog.
Destroy ==
  /\ Interactive
  /\ Becomes(finish([Fields EXCEPT !.uiManager = FALSE]))

\* The dialog's "close" event is dispatched: #close.
Close ==
  /\ closeQueued
  /\ Becomes(close([Fields EXCEPT !.closeQueued = FALSE]))

\* ------------------------------------------------------ tabs, description
\* Click on a tab button.
TabClick(name) ==
  /\ Interactive
  /\ Becomes(tabCallback(Fields, name))

\* Click on the clear button (lines 176-182): #initTab(null).
ClearSignature ==
  /\ Interactive
  /\ ~buttonsDisabled
  /\ Becomes(initTab(Fields, NoTab))

\* A variant of the typed-signature listener that leaves the description
\* alone.
typeInputListenerSilent(s) == disableButtons(s, s.typeInput # "")

\* The "input" listener of the typed-signature input (lines 332-343).
typeInputListener(s) ==
  LET value == s.typeInput
      s1 == IF ~s.hasDescriptionChanged
            THEN [s EXCEPT !.description = value,
                           !.clearDescriptionDisabled = (value = "")]
            ELSE s
  IN disableButtons(s1, value # "")

\* The user changes the typed-signature input to v.
TypeInput(v) ==
  /\ Interactive
  /\ currentTab = "type" /\ currentTabAC = "type"
  /\ v # typeInput
  /\ Becomes(typeInputListener([Fields EXCEPT !.typeInput = v]))

\* The "input" listener of the description registered by the type tab
\* (lines 344-351).
descriptionTypeListener(s) ==
  [s EXCEPT !.hasDescriptionChanged = (s.typeInput # s.description)]

\* The "input" listener registered by the constructor (lines 183-189): it
\* reads `value` on the container element, not on the input.
descriptionListener(s) ==
  [s EXCEPT !.clearDescriptionDisabled = (Undefined = "")]

\* The user changes the description to v: the listener on the input (when
\* the type tab registered one), then the one on its container.
DescriptionInput(v) ==
  /\ Interactive
  /\ v # description
  /\ LET s == [Fields EXCEPT !.description = v]
         s1 == IF currentTabAC = "type" THEN descriptionTypeListener(s) ELSE s
     IN Becomes(descriptionListener(s1))

\* Click on the clear-description button (lines 190-197).
clearDescriptionListener(s) ==
  [s EXCEPT !.description = "", !.clearDescriptionDisabled = TRUE]

ClearDescription ==
  /\ Interactive
  /\ ~clearDescriptionDisabled
  /\ Becomes(clearDescriptionListener(Fields))

\* The user toggles the save checkbox (no listener of the manager).
ToggleSave ==
  /\ Interactive
  /\ Becomes([Fields EXCEPT !.saveCheckbox = ~saveCheckbox])

\* Click on the close button of the error bar (lines 198-204).
ErrorClose ==
  /\ Interactive
  /\ ~errorBarHidden
  /\ Becomes([Fields EXCEPT !.errorBarHidden = TRUE])

\* ---------------------------------------------------------------- draw tab
\* The drawing surface: getBoundingClientRect() of #drawSVG.
SurfaceWidth == 1
SurfaceHeight == 1

\* Path commands of #drawPathString.  The control points of a C command are
\* kept as numerators over 6.
MoveTo(x, y) == [op |-> "M", args |-> <<x, y>>]
LineTo(x, y) == [op |-> "L", args |-> <<x, y>>]
CurveTo(x1, y1, x2, y2, x, y) ==
  [op |-> "C", args |-> <<x1 + 5 * x2, y1 + 5 * y2, 5 * x2 + x, 5 * y2 + y,
                          3 * (x2 + x), 3 * (y2 + y)>>]

\* #drawPoints: the points array of the stroke started last (the same array
\* object as the last element of #drawCurves.curves).
drawPoints(s) ==
  LET curves == s.drawCurves[1].curves IN curves[Len(curves)]

setDrawPoints(s, pts) ==
  LET curves == s.drawCurves[1].curves
  IN [s EXCEPT !.drawCurves =
        Some([s.drawCurves[1] EXCEPT !.curves = [curves EXCEPT ![Len(curves)] = pts]])]

\* path.setAttribute("d", this.#drawPathString)
setPathD(s) ==
  [s EXCEPT !.drawPath = Some([s.drawPath[1] EXCEPT !.d = s.drawPathString])]

\* A variant of drawCallback that records a later stroke in the buffer without
\* moving the path to its first point.
drawCallbackJoins(s, pointerId, x, y) ==
  IF s.currentPointerId # 0 /\ s.currentPointerId # pointerId THEN s
  ELSE
    LET s1 == [s EXCEPT !.currentPointerId = pointerId,
                        !.drawPlaceholderHidden =
                           (s.drawListener = "placeholder") \/ s.drawPlaceholderHidden]
        s2 == IF s1.drawCurves = Null
              THEN [disableButtons(s1, TRUE) EXCEPT
                      !.drawCurves = Some([width |-> SurfaceWidth,
                                           height |-> SurfaceHeight,
                                           thickness |-> s1.drawThickness,
                                           curves |-> <<>>]),
                      !.drawPath = Some([strokeWidth |-> s1.drawThickness,
                                         d |-> <<>>]),
                      !.drawListener = "svg",
                      !.pendingL10n =
                         IF s1.description = "" THEN s1.pendingL10n + 1
                         ELSE s1.pendingL10n]
              ELSE s1
        s3 == [s2 EXCEPT !.drawCurves =
                 Some([s2.drawCurves[1] EXCEPT
                         !.curves = Append(s2.drawCurves[1].curves, <<x, y>>)]),
                         !.drawPathString =
                            IF s2.drawPathString = <<>>
                            THEN <<MoveTo(x, y)>>
                            ELSE Append(s2.drawPathString, LineTo(x, y))]
    IN [setPathD(s3) EXCEPT !.strokeListeners = TRUE]

\* drawCallback (lines 364-466), the pointerdown listener; (x, y) are the
\* rounded offsets of the event.
drawCallback(s, pointerId, x, y) ==
  IF s.currentPointerId # 0 /\ s.currentPointerId # pointerId THEN s
  ELSE
    LET s1 == [s EXCEPT !.currentPointerId = pointerId,
                        !.drawPlaceholderHidden =
                           (s.drawListener = "placeholder") \/ s.drawPlaceholderHidden]
        s2 == IF s1.drawCurves = Null
              THEN [disableButtons(s1, TRUE) EXCEPT
                      !.drawCurves = Some([width |-> SurfaceWidth,
                                           height |-> SurfaceHeight,
                                           thickness |-> s1.drawThickness,
                                           curves |-> <<>>]),
                      !.drawPath = Some([strokeWidth |-> s1.drawThickness,
                                         d |-> <<>>]),
                      !.drawListener = "svg",
                      !.pendingL10n =
                         IF s1.description = "" THEN s1.pendingL10n + 1
                         ELSE s1.pendingL10n]
              ELSE s1
        s3 == [s2 EXCEPT !.drawCurves =
                 Some([s2.drawCurves[1] EXCEPT
                         !.curves = Append(s2.drawCurves[1].curves, <<x, y>>)]),
                         !.drawPathString = Append(s2.drawPathString, MoveTo(x, y))]
    IN [setPathD(s3) EXCEPT !.strokeListeners = TRUE]

\* pointerdown on the drawing surface.
PointerDown(pointerId, x, y) ==
  /\ Interactive
  /\ currentTab = "draw" /\ drawListener # "none"
  /\ pointerId # currentPointerId
  /\ drawCurves # Null => Len(drawCurves[1].curves) < MaxStrokes
  /\ (drawCurves = Null /\ description = "") => pendingL10n < MaxPendingL10n
  /\ Becomes(drawCallback(Fields, pointerId, x, y))

\* A variant of the pointermove listener that records a repeated point.
pointerMoveListenerRepeats(s, x, y) ==
  LET pts == drawPoints(s)
      n == Len(pts)
  IN IF x < 0 \/ y < 0 \/ x > SurfaceWidth \/ y > SurfaceHeight
     THEN s
     ELSE LET cmd == IF n >= 4
                     THEN CurveTo(pts[n - 3], pts[n - 2], pts[n - 1], pts[n], x, y)
                     ELSE LineTo(x, y)
              s1 == [s EXCEPT !.drawPathString = Append(s.drawPathString, cmd)]
          IN setPathD(setDrawPoints(s1, pts \o <<x, y>>))

\* A variant of the pointermove listener that smooths from the fourth point on.
pointerMoveListenerLate(s, x, y) ==
  LET pts == drawPoints(s)
      n == Len(pts)
  IN IF \/ x < 0 \/ y < 0 \/ x > SurfaceWidth \/ y > SurfaceHeight
        \/ (x = pts[n - 1] /\ y = pts[n])
     THEN s
     ELSE LET cmd == IF n >= 6
                     THEN CurveTo(pts[n - 3], pts[n - 2], pts[n - 1], pts[n], x, y)
                     ELSE LineTo(x, y)
              s1 == [s EXCEPT !.drawPathString = Append(s.drawPathString, cmd)]
          IN setPathD(setDrawPoints(s1, pts \o <<x, y>>))

\* The pointermove listener of a stroke (lines 420-447).
pointerMoveListener(s, x, y) ==
  LET pts == drawPoints(s)
      n == Len(pts)
  IN IF \/ x < 0 \/ y < 0 \/ x > SurfaceWidth \/ y > SurfaceHeight
        \/ (x = pts[n - 1] /\ y = pts[n])
     THEN s
     ELSE LET cmd == IF n >= 4
                     THEN CurveTo(pts[n - 3], pts[n - 2], pts[n - 1], pts[n], x, y)
                     ELSE LineTo(x, y)
              s1 == [s EXCEPT !.drawPathString = Append(s.drawPathString, cmd)]
          IN setPathD(setDrawPoints(s1, pts \o <<x, y>>))

\* pointermove on the drawing surface while a stroke's listeners are live.
PointerMove(x, y) ==
  /\ Interactive
  /\ currentTab = "draw" /\ strokeListeners
  /\ Len(drawPoints(Fields)) < 2 * MaxPoints
  /\ Becomes(pointerMoveListener(Fields, x, y))

\* A variant of the pointerup listener that never closes a one-point stroke.
pointerUpListenerOpen(s, pId) ==
  IF s.currentPointerId # 0 /\ s.currentPointerId # pId THEN s
  ELSE [s EXCEPT !.currentPointerId = 0, !.strokeListeners = FALSE]

\* The pointerup listener of a stroke (lines 448-465).
pointerUpListener(s, pId) ==
  IF s.currentPointerId # 0 /\ s.currentPointerId # pId THEN s
  ELSE
    LET s1 == [s EXCEPT !.currentPointerId = 0, !.strokeListeners = FALSE]
        pts == drawPoints(s1)
    IN IF Len(pts) = 2
       THEN setPathD([s1 EXCEPT !.drawPathString =
                        Append(s1.drawPathString, LineTo(pts[1], pts[2]))])
       ELSE s1

PointerUp(pId) ==
  /\ Interactive
  /\ currentTab = "draw" /\ strokeListeners
  /\ Becomes(pointerUpListener(Fields, pId))

\* The "input" listener of the thickness slider (lines 476-491).
thicknessListener(s) ==
  IF s.drawCurves = Null THEN s
  ELSE [s EXCEPT !.drawPath = Some([s.drawPath[1] EXCEPT !.strokeWidth = s.drawThickness]),
                 !.drawCurves = Some([s.drawCurves[1] EXCEPT !.thickness = s.drawThickness])]

ThicknessInput(v) ==
  /\ Interactive
  /\ currentTab = "draw" /\ currentTabAC = "draw"
  /\ v # drawThickness
  /\ Becomes(thicknessListener([Fields EXCEPT !.drawThickness = v]))

\* A variant of the l10n callback that assigns the text unconditionally.
l10nResolvedOverwrites(s, text) ==
  [s EXCEPT !.description = text, !.clearDescriptionDisabled = (text = "")]

\* The l10n lookup started by the first stroke resolves (lines 399-402).
l10nResolved(s, text) ==
  LET s1 == [s EXCEPT !.description = IF s.description = "" THEN text ELSE s.description]
  IN [s1 EXCEPT !.clearDescriptionDisabled = (s1.description = "")]

L10nResolved ==
  /\ pendingL10n > 0
  /\ Becomes(l10nResolved([Fields EXCEPT !.pendingL10n = pendingL10n - 1], L10nSignature))

\* --------------------------------------------------------------- image tab
\* A file offered by the picker or by a drop: whether its type is one of
\* SupportedImageMimeTypes, and its name.
Files == [supported : BOOLEAN, name : {"f.png"}]

\* The synchronous part of #extractSignature (lines 581-584): getFromFile is
\* called on #uiManager.imageManager and awaited.
extractSignatureStart(s, file) ==
  IF ~s.uiManager THEN Throw(s, "extractSignature")
  ELSE LET id == s.extractions + 1
       IN [s EXCEPT !.extractions = id,
                    !.pendingExtractions = @ \cup {[id |-> id, file |-> file]}]

\* The "click" listener of the image picker (lines 515-521), reached through
\* the link in the image placeholder.
PickerClick ==
  /\ Interactive
  /\ currentTab = "image" /\ currentTabAC = "image"
  /\ ~imagePlaceholderHidden
  /\ Becomes([Fields EXCEPT !.waiting = TRUE, !.pickerOpen = TRUE])

\* The "change" listener of the image picker (lines 522-534); files is the
\* picker's file list.
pickerChangeListener(s, files) ==
  IF files = <<>> \/ ~files[1].supported
  THEN [s EXCEPT !.errorBarHidden = FALSE, !.waiting = FALSE]
  ELSE extractSignatureStart(s, files[1])

PickerChange(files) ==
  /\ pickerOpen
  /\ currentTabAC = "image"
  /\ (files # <<>> /\ files[1].supported) =>
        /\ extractions < MaxExtractions
        /\ Cardinality(pendingExtractions) < MaxPendingExtractions
  /\ Becomes(pickerChangeListener([Fields EXCEPT !.pickerOpen = FALSE], files))

\* The "cancel" listener of the image picker (lines 535-541).
PickerCancel ==
  /\ pickerOpen
  /\ currentTabAC = "image"
  /\ Becomes([Fields EXCEPT !.waiting = FALSE, !.pickerOpen = FALSE])

\* The "drop" listener of the image placeholder (lines 559-578).
dropListener(s, files) ==
  IF files = <<>> THEN s
  ELSE LET hits == {i \in 1..Len(files) : files[i].supported}
           s1 == IF hits = {} THEN s
                 ELSE extractSignatureStart(
                        s, files[CHOOSE i \in hits : \A j \in hits : i <= j])
       IN IF s1.errors # s.errors THEN s1 ELSE [s1 EXCEPT !.waiting = TRUE]

Drop(files) ==
  /\ Interactive
  /\ currentTab = "image" /\ currentTabAC = "image"
  /\ ~imagePlaceholderHidden
  /\ (\E i \in 1..Len(files) : files[i].supported) =>
        /\ extractions < MaxExtractions
        /\ Cardinality(pendingExtractions) < MaxPendingExtractions
  /\ Becomes(dropListener(Fields, files))

\* The answers of the collaborators to one extraction: getFromFile fails
\* ("decodeFailed"), or the image is traced without / with an outline.
ExtractionOutcomes == {"decodeFailed", "noOutline", "outline"}

\* #extractSignature after `await getFromFile` (lines 585-617).
extractSignatureResume(s, x, outcome) ==
  IF outcome = "decodeFailed"
  THEN [s EXCEPT !.errorBarHidden = FALSE, !.waiting = FALSE]
  ELSE IF s.currentEditor = 0 THEN Throw(s, "extractSignature")
  ELSE
    LET s1 == [s EXCEPT !.extractedSignatureData =
                 Some([kind |-> "image", id |-> x.id,
                       outline |-> (outcome = "outline")])]
    IN IF outcome = "noOutline" THEN [s1 EXCEPT !.waiting = FALSE]
       ELSE
         LET s2 == [disableButtons(s1, TRUE) EXCEPT
                      !.imagePlaceholderHidden = TRUE,
                      !.imagePath = Some(x.id),
                      !.imageSVG = Append(s1.imageSVG, x.id)]
             s3 == IF s2.description = ""
                   THEN [s2 EXCEPT !.description = x.file.name,
                                   !.clearDescriptionDisabled = (x.file.name = "")]
                   ELSE s2
         IN [s3 EXCEPT !.waiting = FALSE]

ExtractionDone(outcome) ==
  \E x \in pendingExtractions :
    /\ Becomes(extractSignatureResume(
                 [Fields EXCEPT !.pendingExtractions = @ \ {x}], x, outcome))

\* ------------------------------------------------------------------ commit
\* #getOutlineForType / #getOutlineForDraw (lines 619-633) and the image
\* case of #add: the payload handed over for the active tab.
getOutlineForType(s) == Some([kind |-> "type", text |-> s.typeInput])

getOutlineForDraw(s) == Some([kind |-> "draw", curves |-> s.drawCurves])

payloadOf(s) ==
  CASE s.currentTab = "type" -> getOutlineForType(s)
    [] s.currentTab = "draw" -> getOutlineForDraw(s)
    [] s.currentTab = "image" -> s.extractedSignatureData
    [] OTHER -> Null

\* SignatureExtractor.processDrawnLines: an outline for the curves.
processDrawnLines(signatureData) == Some("outline")

\* #addToolbarButton (lines 635-728)
addToolbarButton(s, signatureData, uuid, desc) ==
  IF processDrawnLines(signatureData) = Null THEN s
  ELSE [s EXCEPT !.toolbar = Append(s.toolbar, [uuid |-> uuid, title |-> desc])]

\* The host editor's addSignature: it materializes the signature.
editorAddSignature(eds, e, data, heightInPage, desc, uuid) ==
  [eds EXCEPT ![e] = [state |-> "materialized",
                      calls |-> Append(eds[e].calls,
                                       [data |-> data, heightInPage |-> heightInPage,
                                        description |-> desc, uuid |-> uuid]),
                      description |-> desc]]

\* The end of #add (lines 897-904): addSignature on #currentEditor, #finish.
addTail(s, data, uuid) ==
  IF s.currentEditor = 0 THEN Throw(s, "add")
  ELSE finish([s EXCEPT !.editors =
                 editorAddSignature(s.editors, s.currentEditor, data,
                                    DEFAULT_HEIGHT_IN_PAGE, s.description, uuid)])

\* A variant of #add that never saves.
addStartUnsaved(s) == addTail(s, payloadOf(s), 0)

\* #add up to `await compressSignature` (lines 853-876), or to its end when
\* the save checkbox is not checked.
addStart(s) ==
  LET data == payloadOf(s)
  IN IF s.saveCheckbox
     THEN IF data = Null THEN Throw(s, "add")
          ELSE [s EXCEPT !.pendingAdds =
                  Append(s.pendingAdds,
                         [stage |-> "compress", data |-> data,
                          description |-> s.description, call |-> 0])]
     ELSE addTail(s, data, 0)

\* Click on the add button.
Add ==
  /\ Interactive
  /\ ~buttonsDisabled
  /\ saveCheckbox => Len(pendingAdds) < MaxPendingAdds
  /\ Becomes(addStart(Fields))

RemoveAt(q, i) == SubSeq(q, 1, i - 1) \o SubSeq(q, i + 1, Len(q))

\* compressSignature has answered: signatureStorage.create is called and
\* awaited (lines 877-880).
addCompressed(s, i) ==
  [s EXCEPT !.createCalls = s.createCalls + 1,
            !.pendingAdds[i].stage = "create",
            !.pendingAdds[i].call = s.createCalls + 1]

AddCompressed ==
  \E i \in 1..Len(pendingAdds) :
    /\ pendingAdds[i].stage = "compress"
    /\ Becomes(addCompressed(Fields, i))

\* signatureStorage.create has answered with a new uuid (created) or with a
\* falsy value (lines 881-904).  The uuid 0 stands for null.
addCreated(s, i, created) ==
  LET a == s.pendingAdds[i]
      s0 == [s EXCEPT !.pendingAdds = RemoveAt(s.pendingAdds, i)]
      uuid == IF created THEN a.call ELSE 0
      s1 == IF created
            THEN addToolbarButton(
                   [s0 EXCEPT !.storage = @ \cup {[uuid |-> uuid,
                                                   description |-> a.description,
                                                   signatureData |-> a.data]}],
                   a.data, uuid, a.description)
            ELSE s0
  IN addTail(s1, a.data, uuid)

AddCreated(created) ==
  \E i \in 1..Len(pendingAdds) :
    /\ pendingAdds[i].stage = "create"
    /\ Becomes(addCreated(Fields, i, created))

\* --------------------------------------------------- EditDescriptionDialog
\* The "input" listener of the description field (lines 952-961).
editInputListener(s) ==
  [s EXCEPT !.edit.clearDisabled = (s.edit.description = ""),
            !.edit.updateDisabled =
               (s.edit.description = s.edit.previousDescription),
            !.edit.ariaLabel = s.edit.description]

\* The user types in the description field of the edit dialog.
EditInput(v) ==
  /\ edit.active /\ v # edit.description
  /\ Becomes(editInputListener([Fields EXCEPT !.edit.description = v]))

\* The "click" listener of the clear control (lines 948-951).
editClearListener(s) ==
  [s EXCEPT !.edit.description = "", !.edit.clearDisabled = TRUE]

\* The user clicks the clear control of the edit dialog.
EditClear ==
  /\ edit.active /\ ~edit.clearDisabled
  /\ Becomes(editClearListener(Fields))

\* EditDescriptionDialog.open(editor) (lines 966-983): the fields are set,
\* the synthetic "input" event runs the listener, the preview path is
\* appended and the overlay manager shows the dialog.
editOpen(s, e) ==
  LET s1 == [s EXCEPT !.edit.uiManager = TRUE,
                      !.edit.currentEditor = e,
                      !.edit.previousDescription = s.editors[e].description,
                      !.edit.description = s.editors[e].description]
      s2 == editInputListener(s1)
  IN [s2 EXCEPT !.edit.signatureSVG = @ + 1, !.edit.active = TRUE]

\* The user asks to edit the description of a signature that is on the page;
\* as for open(), no overlay is showing and no "close" event is still queued.
EditOpen(e) ==
  /\ editors[e].state = "materialized"
  /\ ~overlayActive /\ ~closeQueued /\ openStage = "idle"
  /\ ~edit.active /\ ~edit.closeQueued
  /\ Becomes(editOpen(Fields, e))

\* EditDescriptionDialog.#finish (lines 995-999)
editFinish(s) ==
  IF s.edit.active
  THEN [s EXCEPT !.edit.active = FALSE, !.edit.closeQueued = TRUE]
  ELSE s

\* A variant of #update that never writes the description.
editUpdateDiscards(s) == editFinish(s)

\* EditDescriptionDialog.#update (lines 985-993)
editUpdate(s) ==
  LET d == s.edit.description
  IN IF s.edit.previousDescription = d THEN editFinish(s)
     ELSE IF s.edit.currentEditor = 0 THEN Throw(s, "editUpdate")
     ELSE editFinish([s EXCEPT !.editors[s.edit.currentEditor].description = d])

\* The user clicks the update button.
EditUpdate ==
  /\ edit.active /\ ~edit.updateDisabled
  /\ Becomes(editUpdate(Fields))

\* The user clicks the cancel button (line 944) or presses Escape.
EditCancel ==
  /\ edit.active
  /\ Becomes(editFinish(Fields))

\* A variant of #close that leaves the preview path in place.
editCloseKeepsPreview(s) ==
  [s EXCEPT !.edit.uiManager = FALSE, !.edit.currentEditor = 0]

\* EditDescriptionDialog.#close (lines 1001-1006), the "close" listener.
editClose(s) ==
  LET s1 == [s EXCEPT !.edit.uiManager = FALSE, !.edit.currentEditor = 0]
  IN IF s.edit.signatureSVG = 0 THEN Throw(s1, "editClose")
     ELSE [s1 EXCEPT !.edit.signatureSVG = @ - 1]

\* The queued "close" event of the edit dialog is dispatched.
EditClose ==
  /\ edit.closeQueued
  /\ Becomes(editClose([Fields EXCEPT !.edit.closeQueued = FALSE]))

\* ------------------------------------------------------------ loadSignatures
\* SignatureExtractor.decompressSignature: the data of a record, or null.
decompressSignature(signatureData, ok) == IF ok THEN signatureData ELSE Null

\* The records of the store in the order of getAll (by uuid), as a sequence.
RECURSIVE getAll(_)
getAll(records) ==
  IF records = {} THEN <<>>
  ELSE LET r == CHOOSE x \in records : \A y \in records : x.uuid <= y.uuid
       IN <<r>> \o getAll(records \ {r})

\* What #loadSignaturesPromise resolves with (lines 755-764): the records
\* and, for each, its decompressed data.
loadedValue(s, ok) ==
  LET all == getAll(s.storage)
  IN [i \in 1..Len(all) |->
        [uuid |-> all[i].uuid, description |-> all[i].description,
         data |-> decompressSignature(all[i].signatureData, ok)]]

\* The loop of loadSignatures (lines 772-781) from the i-th signature on.
RECURSIVE addLoaded(_, _, _)
addLoaded(s, value, i) ==
  IF i > Len(value) THEN s
  ELSE addLoaded(IF value[i].data = Null THEN s
                 ELSE addToolbarButton(s, value[i].data, value[i].uuid,
                                       value[i].description),
                 value, i + 1)

\* loadSignatures after `await this.#loadSignaturesPromise` (lines 769-781).
loadResume(s, value) ==
  addLoaded([s EXCEPT !.loader.promise = 0], value, 1)

\* The calls that await promise id resume, in the order in which they began
\* to wait.
RECURSIVE resumeWaiters(_, _, _)
resumeWaiters(s, id, value) ==
  IF \A i \in 1..Len(s.loader.waiters) : s.loader.waiters[i] # id THEN s
  ELSE LET i == CHOOSE j \in 1..Len(s.loader.waiters) :
                  /\ s.loader.waiters[j] = id
                  /\ \A k \in 1..(j - 1) : s.loader.waiters[k] # id
           s1 == [s EXCEPT !.loader.waiters = RemoveAt(s.loader.waiters, i)]
       IN resumeWaiters(loadResume(s1, value), id, value)

\* loadSignatures(reload) (lines 743-782) up to its await; a call that
\* awaits a promise already resolved goes on at once.
loadSignatures(s, reload) ==
  IF ~reload /\ Len(s.toolbar) > 0 THEN s
  ELSE
    LET fresh == (s.loader.promise = 0)
        s1 == IF fresh
              THEN [s EXCEPT !.loader.promises =
                               Append(@, [resolved |-> FALSE, value |-> <<>>]),
                             !.loader.promise = Len(s.loader.promises) + 1]
              ELSE s
        id == s1.loader.promise
    IN IF fresh /\ ~reload THEN s1
       ELSE IF s1.loader.promises[id].resolved
            THEN loadResume(s1, s1.loader.promises[id].value)
            ELSE [s1 EXCEPT !.loader.waiters = Append(@, id)]

\* The host calls loadSignatures().
LoadSignatures(reload) ==
  /\ loader.promise = 0 => Len(loader.promises) < MaxLoads
  /\ Len(loader.waiters) < MaxLoadWaiters
  /\ Becomes(loadSignatures(Fields, reload))

\* #signaturesChanged (lines 730-737), the "storedsignatureschanged" handler.
signaturesChanged(s) ==
  loadSignatures([s EXCEPT !.toolbar = <<>>, !.loader.promise = 0], TRUE)

SignaturesChanged ==
  /\ Len(loader.promises) < MaxLoads
  /\ Len(loader.waiters) < MaxLoadWaiters
  /\ Becomes(signaturesChanged(Fields))

\* getAll and decompressSignature have answered for promise id: the promise
\* resolves and the calls that await it resume.
loadAnswered(s, id, ok) ==
  LET value == loadedValue(s, ok)
      s1 == [s EXCEPT !.loader.promises[id] = [resolved |-> TRUE, value |-> value]]
  IN resumeWaiters(s1, id, value)

LoadAnswered(ok) ==
  \E id \in 1..Len(loader.promises) :
    /\ ~loader.promises[id].resolved
    /\ Becomes(loadAnswered(Fields, id, ok))

\* ----------------------------------------------------------------- history
\* leftDesc: for every tab other than the selected one, the description the
\* field showed when that tab was last left in this session ("" if it was
\* not visited); the selected tab's entry is "".
LeftDescAfter ==
  IF currentTab' = NoTab THEN EmptyTabsMap
  ELSE IF currentTab' # currentTab
       THEN [t \in Tabs |-> IF t = currentTab' THEN ""
                            ELSE IF t = currentTab THEN description
                            ELSE leftDesc[t]]
       ELSE leftDesc

\* descEdited: the user has edited the description while the type tab was
\* selected, in this session.
DescEditedAfter(op) ==
  IF currentTab' = NoTab THEN FALSE
  ELSE descEdited \/ (op = "descriptionInput" /\ currentTab = "type")

\* diverged: the type tab's description was edited to differ from the typed
\* text and has not been equal to it since.
DivergedAfter(op) ==
  IF currentTab' = NoTab THEN FALSE
  ELSE IF currentTab' # "type" THEN diverged
  ELSE IF op = "descriptionInput" /\ currentTab = "type"
       THEN description' # typeInput'
       ELSE diverged /\ description' # typeInput'

\* One step: handler A runs.  lastOp names it when its name is in keep, and
\* the history variables named in hs follow it.
Track(A, op, keep, hs) ==
  /\ A
  /\ lastOp' = IF op \in keep THEN op ELSE "-"
  /\ leftDesc' = IF "leftDesc" \in hs THEN LeftDescAfter ELSE leftDesc
  /\ descEdited' = IF "descEdited" \in hs THEN DescEditedAfter(op) ELSE descEdited
  /\ diverged' = IF "diverged" \in hs THEN DivergedAfter(op) ELSE diverged
  /\ checkedAdds' = IF "checkedAdds" \in hs /\ op = "addSaved"
                    THEN checkedAdds + 1 ELSE checkedAdds

\* ------------------------------------------------------------ environment
PointerIds == {1, 2}
Coords == {0, 1, 2}
Thicknesses == {1, 2}
SupportedFile == [supported |-> TRUE, name |-> "f.png"]
FileLists == {<<>>} \cup {<<f>> : f \in Files}
AllHistory == {"leftDesc", "descEdited", "diverged", "checkedAdds"}
EditOps == {"editOpen", "editInput", "editClear", "editUpdate", "editCancel",
            "editClose"}
AllOps == EditOps \cup
          {"openStart", "openFull", "openNotFull", "openShown", "cancel",
           "destroy", "close", "tabClick", "tabClickSame", "clearSignature",
           "typeInput", "descriptionInput", "clearDescription", "toggleSave",
           "errorClose", "pointerDown", "pointerMove", "pointerUp",
           "thicknessInput", "l10nResolved", "pickerClick", "pickerChange",
           "pickerCancel", "drop", "extractionDone", "addSaved", "addUnsaved",
           "addCompressed", "addCreated", "addNotCreated", "loadSignatures",
           "reloadSignatures", "signaturesChanged", "loadAnswered",
           "loadFailed"}

\* The host opens the dialog (at most k times) and the user or the host
\* dismisses it; fulls are the answers of signatureStorage.isFull.
Lifecycle(k, fulls, keep, hs) ==
  \/ Track(OpenStart(k), "openStart", keep, hs)
  \/ \E full \in fulls :
       Track(OpenStorageChecked(full),
             IF full THEN "openFull" ELSE "openNotFull", keep, hs)
  \/ Track(OpenShown, "openShown", keep, hs)
  \/ Track(Cancel, "cancel", keep, hs)
  \/ Track(Close, "close", keep, hs)

\* The user selects tabs, types a signature (from TT), edits the description
\* (from DT) and clears either.
Describe(TT, DT, keep, hs) ==
  \/ \E name \in Tabs :
       Track(TabClick(name),
             IF name = currentTab THEN "tabClickSame" ELSE "tabClick", keep, hs)
  \/ Track(ClearSignature, "clearSignature", keep, hs)
  \/ \E v \in TT : Track(TypeInput(v), "typeInput", keep, hs)
  \/ \E v \in DT : Track(DescriptionInput(v), "descriptionInput", keep, hs)
  \/ Track(ClearDescription, "clearDescription", keep, hs)

\* The user draws with one pointer, from the origin of the surface; a stroke
\* is added to a drawing that has one only if more is set.
Stroke(more, keep, hs) ==
  \/ Track((more \/ drawCurves = Null) /\ PointerDown(1, 0, 0),
           "pointerDown", keep, hs)
  \/ Track(PointerUp(1), "pointerUp", keep, hs)
  \/ Track(L10nResolved, "l10nResolved", keep, hs)

\* The user drops supported image files, which the extractor traces; a file
\* is dropped while another is being traced only if more is set.
Trace(more, keep, hs) ==
  \/ Track((more \/ pendingExtractions = {}) /\ Drop(<<SupportedFile>>),
           "drop", keep, hs)
  \/ Track(ExtractionDone("outline"), "extractionDone", keep, hs)

\* The user commits, with or without saving, and the store answers; the add
\* button is clicked while a commit is being saved only if more is set.
Commit(more, keep, hs) ==
  \/ Track(ToggleSave, "toggleSave", keep, hs)
  \/ Track((more \/ pendingAdds = <<>>) /\ Add,
           IF saveCheckbox THEN "addSaved" ELSE "addUnsaved", keep, hs)
  \/ Track(AddCompressed, "addCompressed", keep, hs)
  \/ \E c \in BOOLEAN :
       Track(AddCreated(c), IF c THEN "addCreated" ELSE "addNotCreated", keep, hs)

\* The user edits the description of a committed signature, typing texts
\* from DT.
Editing(DT, keep, hs) ==
  \/ \E e \in 1..MaxEditors : Track(EditOpen(e), "editOpen", keep, hs)
  \/ \E v \in DT : Track(EditInput(v), "editInput", keep, hs)
  \/ Track(EditClear, "editClear", keep, hs)
  \/ Track(EditUpdate, "editUpdate", keep, hs)
  \/ Track(EditCancel, "editCancel", keep, hs)
  \/ Track(EditClose, "editClose", keep, hs)

\* The host asks for the toolbar entries (with reload from reloads), the
\* store announces changes and answers the loads; oks are the outcomes of
\* decompressing.
Loading(reloads, oks, keep, hs) ==
  \/ \E reload \in reloads :
       Track(LoadSignatures(reload),
             IF reload THEN "reloadSignatures" ELSE "loadSignatures", keep, hs)
  \/ Track(SignaturesChanged, "signaturesChanged", keep, hs)
  \/ \E ok \in oks :
       Track(LoadAnswered(ok), IF ok THEN "loadAnswered" ELSE "loadFailed",
             keep, hs)

\* ------------------------------------------------------------------ Spec
\* Every handler with every input.
Next ==
  \/ /\ ~edit.active /\ ~edit.closeQueued
     /\ Lifecycle(MaxOpens, BOOLEAN, AllOps, AllHistory)
  \/ Track(Destroy, "destroy", AllOps, AllHistory)
  \/ Describe(Text, Text, AllOps, AllHistory)
  \/ Track(ErrorClose, "errorClose", AllOps, AllHistory)
  \/ \E p \in PointerIds, x \in Coords :
       Track(PointerDown(p, x, 0), "pointerDown", AllOps, AllHistory)
  \/ \E x \in Coords : Track(PointerMove(x, 0), "pointerMove", AllOps, AllHistory)
  \/ \E p \in PointerIds : Track(PointerUp(p), "pointerUp", AllOps, AllHistory)
  \/ \E v \in Thicknesses :
       Track(ThicknessInput(v), "thicknessInput", AllOps, AllHistory)
  \/ Track(L10nResolved, "l10nResolved", AllOps, AllHistory)
  \/ Track(PickerClick, "pickerClick", AllOps, AllHistory)
  \/ \E f \in FileLists : Track(PickerChange(f), "pickerChange", AllOps, AllHistory)
  \/ Track(PickerCancel, "pickerCancel", AllOps, AllHistory)
  \/ \E f \in FileLists : Track(Drop(f), "drop", AllOps, AllHistory)
  \/ \E o \in ExtractionOutcomes :
       Track(ExtractionDone(o), "extractionDone", AllOps, AllHistory)
  \/ Commit(TRUE, AllOps, AllHistory)
  \/ Editing(Text, AllOps, AllHistory)
  \/ Loading(BOOLEAN, BOOLEAN, AllOps, AllHistory)

Spec == Init /\ [][Next]_vars

\* One dialog session in which the user moves between the tabs, types, edits
\* and clears the description, draws a stroke and drops an image; the history
\* is the description each tab had when it was left.
NextTabs ==
  \/ Lifecycle(1, {FALSE}, {"tabClick", "tabClickSame"}, {"leftDesc"})
  \/ Describe({"", "a"}, {"", "b"}, {"tabClick", "tabClickSame"}, {"leftDesc"})
  \/ Stroke(FALSE, {"tabClick", "tabClickSame"}, {"leftDesc"})
  \/ Trace(FALSE, {"tabClick", "tabClickSame"}, {"leftDesc"})

SpecTabs == Init /\ [][NextTabs]_vars

\* The same session, with the history of the edits of the description.
NextMirror ==
  \/ Lifecycle(1, {FALSE}, {"typeInput"}, {"descEdited", "diverged"})
  \/ Describe({"", "a"}, {"", "b"}, {"typeInput"}, {"descEdited", "diverged"})
  \/ Stroke(FALSE, {"typeInput"}, {"descEdited", "diverged"})
  \/ Trace(FALSE, {"typeInput"}, {"descEdited", "diverged"})

SpecMirror == Init /\ [][NextMirror]_vars

\* One session in which the user fills and clears the three tabs: text,
\* strokes, and images dropped also while another is being traced.
NextCapture ==
  \/ Lifecycle(1, {FALSE}, {"clearSignature"}, {})
  \/ Describe({"", "a"}, {"b"}, {"clearSignature"}, {})
  \/ Stroke(TRUE, {"clearSignature"}, {})
  \/ Trace(TRUE, {"clearSignature"}, {})

SpecCapture == Init /\ [][NextCapture]_vars

\* The user selects tabs and types a signature (from TT).
Tabbing(TT, keep, hs) ==
  \/ \E name \in Tabs :
       Track(TabClick(name),
             IF name = currentTab THEN "tabClickSame" ELSE "tabClick", keep, hs)
  \/ \E v \in TT : Track(TypeInput(v), "typeInput", keep, hs)

\* Sessions that end by cancel, by destroy or by a commit, from any tab, with
\* a typed signature, a stroke begun or the first image traced.
CloseOps == {"close"}

NextClose ==
  \/ Lifecycle(MaxOpens, {FALSE}, CloseOps, {})
  \/ Track(Destroy, "destroy", CloseOps, {})
  \/ Tabbing({"a"}, CloseOps, {})
  \/ Track(drawCurves = Null /\ PointerDown(1, 0, 0), "pointerDown", CloseOps, {})
  \/ Track(extractions = 0 /\ Drop(<<SupportedFile>>), "drop", CloseOps, {})
  \/ Track(ExtractionDone("outline"), "extractionDone", CloseOps, {})
  \/ Commit(FALSE, CloseOps, {})

SpecClose == Init /\ [][NextClose]_vars

\* Sessions on a store that is full or not, with typed signatures committed
\* with and without saving; the history counts the commits that save.
StoreOps == {"openFull", "openNotFull", "addCompressed"}

NextStore ==
  \/ Lifecycle(MaxOpens, BOOLEAN, StoreOps, {"checkedAdds"})
  \/ Tabbing({"", "a"}, StoreOps, {"checkedAdds"})
  \/ Commit(TRUE, StoreOps, {"checkedAdds"})

SpecStore == Init /\ [][NextStore]_vars

\* Sessions on a store that is not full, watching how commits end.
CommitOps == {"addUnsaved", "addCreated", "addNotCreated"}

NextCommit ==
  \/ Lifecycle(MaxOpens, {FALSE}, CommitOps, {})
  \/ Describe({"", "a"}, {"b"}, CommitOps, {})
  \/ Commit(TRUE, CommitOps, {})

SpecCommit == Init /\ [][NextCommit]_vars

\* ---------------------------------------------------------------- claims
\* C1: when the user selects another tab T, the description field shows what
\* it showed when T was last left in this session ("" if T was not visited);
\* a click on the selected tab changes nothing.
C1_TabRestoresDescription ==
  [][ /\ lastOp' = "tabClick" => description' = leftDesc[currentTab']
      /\ lastOp' = "tabClickSame" => Fields' = Fields ]_vars

\* The user is back on the type tab, whose description was edited, after the
\* draw and image tabs got their default descriptions.
C1_Witness ==
  /\ lastOp = "tabClick" /\ currentTab = "type"
  /\ description = "b"
  /\ leftDesc["draw"] = L10nSignature /\ leftDesc["image"] = SupportedFile.name

\* The selected tab holds something to commit: typed text, a drawn path, a
\* traced image.
Capturable ==
  CASE currentTab = "type" -> typeInput # ""
    [] currentTab = "draw" -> drawPath # Null
    [] currentTab = "image" -> imagePath # Null
    [] OTHER -> FALSE

\* C2: while the dialog is open, the add, clear and save controls are enabled
\* exactly when the selected tab holds capturable data.
C2_ControlsFollowCapture == Interactive => (~buttonsDisabled <=> Capturable)

\* The selected tab shows no capture.
TabEmpty ==
  CASE currentTab = "type" -> typeInput = ""
    [] currentTab = "draw" ->
         drawPath = Null /\ drawCurves = Null /\ drawPathString = <<>>
    [] currentTab = "image" -> imagePath = Null /\ imageSVG = <<>>
    [] OTHER -> FALSE

\* C3: a click on the clear button leaves the selected tab selected and
\* empty, the description and the tab's stored description "", and the
\* controls disabled.
C3_ClearEmptiesTab ==
  [][ lastOp' = "clearSignature" =>
        /\ currentTab' = currentTab
        /\ TabEmpty'
        /\ description' = "" /\ tabsToAltText'[1][currentTab'] = ""
        /\ buttonsDisabled' ]_vars

\* C4: after a keystroke in the typed-signature input, when the description
\* was never edited on the type tab in this session, the description is the
\* typed text and the clear-description button is enabled iff it is not "".
C4_TypedTextMirrored ==
  (lastOp = "typeInput" /\ ~descEdited) =>
    /\ description = typeInput
    /\ clearDescriptionDisabled = (typeInput = "")

\* The user has typed "a" and the description followed.
C4_Witness ==
  /\ lastOp = "typeInput" /\ ~descEdited
  /\ typeInput = "a" /\ description = "a" /\ ~clearDescriptionDisabled

\* C5: once the type tab's description was edited to differ from the typed
\* text, and as long as it differs, a keystroke in the typed-signature input
\* does not change the description.
C5_EditedDescriptionKept ==
  [][ (lastOp' = "typeInput" /\ diverged) => description' = description ]_vars

\* C6: once a session's dialog has closed, its host editor has been removed
\* if no commit handed it a signature, and is materialized, not removed, if
\* one did.
C6_CloseRemovesUncommitted ==
  \A e \in 1..opens :
    e # currentEditor =>
      /\ editors[e].calls = <<>> => editors[e].state = "removed"
      /\ editors[e].calls # <<>> => editors[e].state = "materialized"

\* A dialog was closed without a commit and its editor is gone.
C6_Witness ==
  /\ lastOp = "close"
  /\ editors[1].calls = <<>> /\ editors[1].state = "removed"

\* The last addSignature call each host editor received.
LastCalls ==
  { editors[e].calls[Len(editors[e].calls)] :
      e \in {d \in 1..opens : editors[d].calls # <<>>} }

\* C7: when a commit has run to its end (not saved, saved, or refused by the
\* store), it has handed its payload to the host editor and the dialog is
\* closed.
C7_CommitHandsPayload ==
  lastOp \in CommitOps =>
    /\ "add" \notin errors
    /\ LastCalls # {}
    /\ ~overlayActive

\* C8: when the store's create has answered with a falsy value, no toolbar
\* entry was added, addSignature was called with a null uuid, the dialog is
\* closed and no error is shown or raised.
C8_FailedSaveStillCommits ==
  lastOp = "addNotCreated" =>
    /\ Len(toolbar) = Cardinality(storage)
    /\ \E c \in LastCalls : c.uuid = 0
    /\ ~overlayActive
    /\ errorBarHidden /\ "add" \notin errors

\* The number of commits that wait for compressSignature.
CompressPending ==
  Cardinality({i \in 1..Len(pendingAdds) : pendingAdds[i].stage = "compress"})

\* C9: open() checks the save checkbox iff the store is not full and flags
\* the save container iff it is; create is invoked once for every commit
\* made with the checkbox checked, and for no other.
C9_StorageFullPolicy ==
  /\ lastOp = "openFull" => (~saveCheckbox /\ fullStorage)
  /\ lastOp = "openNotFull" => (saveCheckbox /\ ~fullStorage)
  /\ createCalls + CompressPending = checkedAdds

\* On a full store the user checked the box and committed: create is called.
C9_Witness ==
  /\ lastOp = "addCompressed" /\ fullStorage
  /\ createCalls = 1 /\ checkedAdds = 1

\* C10: when the store has created the record of a commit, there is one
\* record with the uuid of the new toolbar entry, its description is the
\* entry's title, and addSignature got that uuid; a commit that does not
\* save adds no record and no entry.
C10_SavedCommitRecorded ==
  /\ lastOp = "addCreated" =>
       /\ "add" \notin errors
       /\ LET b == toolbar[Len(toolbar)]
          IN /\ Cardinality({r \in storage : r.uuid = b.uuid}) = 1
             /\ \A r \in storage : r.uuid = b.uuid => r.description = b.title
             /\ \E c \in LastCalls : c.uuid = b.uuid
  /\ lastOp = "addUnsaved" => Len(toolbar) = Cardinality(storage)

\* ------------------------------------------------------------- image input
UnsupportedFile == [supported |-> FALSE, name |-> "f.png"]

\* The files of a picker or of a drop hold none the manager can use.
Unusable(files) == \A i \in 1..Len(files) : ~files[i].supported

\* One session on a full store (commits do not save) in which the user
\* offers files of any kind through the picker and by drops, also while
\* another image is being traced, and the collaborators answer in every way.
ImageOps == {"pickerRejected", "dropRejected", "noOutline"}

NextImage ==
  \/ Lifecycle(1, {TRUE}, ImageOps, {})
  \/ Tabbing({"a"}, ImageOps, {})
  \/ Track(ClearSignature, "clearSignature", ImageOps, {})
  \/ Track(ErrorClose, "errorClose", ImageOps, {})
  \/ Track(PickerClick, "pickerClick", ImageOps, {})
  \/ \E f \in FileLists :
       Track(PickerChange(f),
             IF Unusable(f) THEN "pickerRejected" ELSE "pickerChange", ImageOps, {})
  \/ Track(PickerCancel, "pickerCancel", ImageOps, {})
  \/ \E f \in FileLists :
       Track(Drop(f), IF Unusable(f) THEN "dropRejected" ELSE "drop", ImageOps, {})
  \/ \E o \in ExtractionOutcomes :
       Track(ExtractionDone(o), o, ImageOps, {})
  \/ Commit(FALSE, ImageOps, {})

SpecImage == Init /\ [][NextImage]_vars

\* C11: when the picker or a drop offers no file of a supported type, the
\* error bar is shown, the dialog is not waiting, and no extraction is
\* started nor the traced path, the payload, the description or the controls
\* changed.
C11_UnusableFileRejected ==
  [][ lastOp' \in {"pickerRejected", "dropRejected"} =>
        /\ ~errorBarHidden' /\ ~waiting'
        /\ UNCHANGED <<extractions, pendingExtractions, imagePath, imageSVG,
                       extractedSignatureData, description, buttonsDisabled>> ]_vars

\* The payloads the host editors were handed.
HandedData ==
  UNION { { editors[e].calls[i].data : i \in 1..Len(editors[e].calls) } :
            e \in 1..opens }

\* C19: an extraction that finds no outline, in the session that started it,
\* shows no path, leaves the controls and the error bar as they are and ends
\* the waiting; no commit hands over an image payload without an outline.
C19_NoOutlineNoCapture ==
  [][ /\ (lastOp' = "noOutline" /\ currentEditor # 0) =>
           /\ imagePath' = imagePath /\ imageSVG' = imageSVG
           /\ buttonsDisabled' = buttonsDisabled
           /\ errorBarHidden' = errorBarHidden
           /\ ~waiting'
      /\ \A d \in HandedData' :
           (d # Null /\ d[1].kind = "image") => d[1].outline ]_vars

\* C20: whenever the dialog is waiting, the file chooser is showing or an
\* extraction is pending, whose answer ends the waiting.
C20_WaitingHasAnEnd == waiting => (pickerOpen \/ pendingExtractions # {})


\* ------------------------------------------------------ description editor
\* One session with a full store, whose signature is committed and then has
\* its description edited; the host opens the signature dialog only while
\* the edit dialog is not showing.
NextEdit ==
  \/ /\ ~edit.active /\ ~edit.closeQueued
     /\ Lifecycle(MaxOpens, {TRUE}, EditOps, {})
  \/ Track(TypeInput("a"), "typeInput", EditOps, {})
  \/ Track(DescriptionInput("b"), "descriptionInput", EditOps, {})
  \/ Commit(FALSE, EditOps, {})
  \/ Editing(Text, EditOps, {})

SpecEdit == Init /\ [][NextEdit]_vars

\* C12: while the edit dialog is open, the update button is enabled exactly
\* when the text of the field differs from the description snapshotted at
\* open, whatever was typed or cleared; a clear control that is disabled
\* goes with an empty field.
C12_UpdateEnabledIffChanged ==
  edit.active =>
    /\ edit.updateDisabled <=> (edit.description = edit.previousDescription)
    /\ edit.description = "" => edit.clearDisabled

\* What the signature dialog and the store hold.
sessionVars == <<lifeVars, tabVars, descVars, typeInput, buttonsDisabled,
                 saveCheckbox, fullStorage, drawVars, imageVars, bannerVars,
                 asyncVars, storeVars, errors>>

\* C13: update called with a text other than the snapshot writes that text
\* as the target editor's description and nothing else; update with the
\* snapshot's text, and cancel, leave the description at the snapshot; both
\* close the dialog, and no step of the edit dialog touches another editor,
\* the store, the toolbar or the signature dialog's session.
C13_EditOutcome ==
  [][ lastOp' \in EditOps =>
        /\ UNCHANGED sessionVars
        /\ lastOp' # "editUpdate" => editors' = editors
        /\ lastOp' = "editUpdate" =>
             editors' = [editors EXCEPT ![edit.currentEditor].description =
                                            edit.description]
        /\ (\/ lastOp' = "editCancel"
            \/ lastOp' = "editUpdate" /\ edit.description = edit.previousDescription)
             => editors'[edit.currentEditor].description = edit.previousDescription
        /\ lastOp' \in {"editUpdate", "editCancel"} =>
             ~edit'.active /\ edit'.closeQueued
        /\ lastOp' = "editClose" =>
             /\ ~edit'.active /\ ~edit'.closeQueued
             /\ edit'.currentEditor = 0 /\ edit'.signatureSVG = 0 ]_vars

\* The dialog has closed after an update that changed the description given
\* at commit.
C13_Witness ==
  /\ lastOp = "editClose"
  /\ \E e \in 1..MaxEditors :
       /\ editors[e].state = "materialized"
       /\ editors[e].description = edit.description
       /\ editors[e].description # edit.previousDescription
       /\ editors[e].calls[Len(editors[e].calls)].description
            = edit.previousDescription


\* -------------------------------------------------------------- draw capture
DrawOps == {"pointerDown", "pointerMove", "pointerUp"}

\* A stroke is begun only in a drawing that has at most one.
SecondStrokeAtMost == drawCurves # Null => Len(drawCurves[1].curves) <= 1

\* One session in which the user draws up to two strokes per drawing with
\* either pointer along the top edge of the surface and beyond it, clears
\* them and changes tab.
NextDraw ==
  \/ Lifecycle(1, {FALSE}, DrawOps, {})
  \/ \E name \in Tabs : Track(TabClick(name), "tabClick", DrawOps, {})
  \/ Track(ClearSignature, "clearSignature", DrawOps, {})
  \/ \E p \in PointerIds, x \in Coords :
       Track(SecondStrokeAtMost /\ PointerDown(p, x, 0), "pointerDown",
             DrawOps, {})
  \/ \E x \in Coords : Track(PointerMove(x, 0), "pointerMove", DrawOps, {})
  \/ \E p \in PointerIds : Track(PointerUp(p), "pointerUp", DrawOps, {})
  \/ Track(L10nResolved, "l10nResolved", DrawOps, {})

SpecDraw == Init /\ [][NextDraw]_vars

\* The commands of the path that belong to the stroke started last.
LastStroke(q) ==
  LET i == CHOOSE j \in 1..Len(q) :
             q[j].op = "M" /\ \A k \in (j + 1)..Len(q) : q[k].op # "M"
  IN SubSeq(q, i, Len(q))

\* The path shown is the path string built so far.
PathShown == drawPath # Null /\ drawPath[1].d = drawPathString

\* C14: a pointerup that ends a stroke of one point leaves the stroke as a
\* move to that point followed by a line to the same point, and a stroke of
\* four or more accepted points has a curve command among its commands.
C14_StrokeCommands ==
  [][ /\ ( /\ lastOp' = "pointerUp" /\ strokeListeners /\ ~strokeListeners'
           /\ Len(drawPoints(Fields)) = 2 ) =>
           LET pts == drawPoints(Fields)
           IN /\ LastStroke(drawPathString') =
                   <<MoveTo(pts[1], pts[2]), LineTo(pts[1], pts[2])>>
              /\ PathShown'
      /\ ( /\ lastOp' \in DrawOps /\ drawCurves' # Null
           /\ Len(drawCurves'[1].curves[Len(drawCurves'[1].curves)]) >= 2 * 4 ) =>
           /\ \E i \in 1..Len(LastStroke(drawPathString')) :
                LastStroke(drawPathString')[i].op = "C"
           /\ PathShown' ]_vars

\* A stroke of one point has just been ended by its pointerup.
C14_Witness ==
  /\ lastOp = "pointerUp" /\ ~strokeListeners
  /\ drawCurves # Null /\ Len(drawPoints(Fields)) = 2
  /\ Len(drawPathString) = 2 /\ drawPathString[2].op = "L"


\* ------------------------------------------------------------ fresh session
ReopenOps == {"openShown"}

\* Sessions, one after the other, in which the user types, changes tab, has
\* one image traced at a time and commits or cancels; the dialog is opened
\* and dismissed while no extraction is pending.
NextReopen ==
  \/ /\ pendingExtractions = {}
     /\ Lifecycle(MaxEditors, {TRUE}, ReopenOps, {})
  \/ Tabbing({"a"}, ReopenOps, {})
  \/ Track(ClearSignature, "clearSignature", ReopenOps, {})
  \/ Trace(FALSE, ReopenOps, {})
  \/ Commit(FALSE, ReopenOps, {})

SpecReopen == Init /\ [][NextReopen]_vars

\* C15: when open() has shown the dialog, the session is the one of the very
\* first open: the type tab is selected, no tab has a stored description, the
\* description is not marked as changed, nothing is typed, drawn or traced,
\* no extracted payload is held and the commit controls are disabled.
C15_OpenIsFresh ==
  lastOp = "openShown" =>
    /\ currentTab = "type"
    /\ tabsToAltText = Some(EmptyTabsMap)
    /\ ~hasDescriptionChanged
    /\ typeInput = ""
    /\ drawCurves = Null /\ drawPath = Null
    /\ imagePath = Null /\ imageSVG = <<>>
    /\ extractedSignatureData = Null
    /\ buttonsDisabled


\* -------------------------------------------------------- late completions
LateOps == {"l10nResolved", "extractionDone", "addCompressed", "addCreated",
            "addNotCreated"}

\* One session in which a stroke is begun, an image is dropped or a commit
\* is being saved, and which may be dismissed before the lookup, the
\* extraction or the store has answered.
NextLate ==
  \/ Lifecycle(1, {FALSE}, LateOps, {})
  \/ Tabbing({"a"}, LateOps, {})
  \/ Stroke(FALSE, LateOps, {})
  \/ Trace(FALSE, LateOps, {})
  \/ Commit(FALSE, LateOps, {})

SpecLate == Init /\ [][NextLate]_vars

\* C16: an asynchronous step that completes after #close has reset the
\* session throws nothing and leaves the session reset: the description
\* empty, no drawing, no traced path or payload, the controls disabled.
C16_LateCompletionBenign ==
  [][ (lastOp' \in LateOps /\ currentEditor = 0 /\ ~closeQueued) =>
        /\ errors' = errors
        /\ description' = "" /\ clearDescriptionDisabled'
        /\ drawCurves' = Null /\ drawPath' = Null
        /\ imagePath' = Null /\ imageSVG' = <<>>
        /\ extractedSignatureData' = extractedSignatureData
        /\ buttonsDisabled' ]_vars


\* ---------------------------------------------------------- commit re-entry
\* C17: the sessions so far have called the store's create, added a toolbar
\* entry and called addSignature on their editor at most once each, and a
\* record that was saved has the description addSignature was given.
C17_CommitOnce ==
  /\ createCalls <= opens
  /\ Len(toolbar) <= opens
  /\ \A e \in 1..MaxEditors :
       /\ Len(editors[e].calls) <= 1
       /\ \A i \in 1..Len(editors[e].calls) : \A r \in storage :
            r.uuid = editors[e].calls[i].uuid =>
              r.description = editors[e].calls[i].description


\* ------------------------------------------------------ default descriptions
DefaultOps == {"l10nResolved", "extractionDone"}

\* One session in which the user begins a stroke or drops an image and
\* types, edits or clears the description before the lookup or the
\* extraction has answered.
NextDefaults ==
  \/ Lifecycle(1, {TRUE}, DefaultOps, {})
  \/ Describe({"a"}, {"", "b"}, DefaultOps, {})
  \/ Stroke(FALSE, DefaultOps, {})
  \/ Trace(FALSE, DefaultOps, {})

SpecDefaults == Init /\ [][NextDefaults]_vars

\* C18: when the l10n lookup of the draw tab resolves, and when an extraction
\* ends with a traced outline, the description becomes the default (the
\* localized text, the file's name) if it was empty at that moment and is
\* left as it was otherwise.
C18_DefaultsFillEmptyOnly ==
  [][ /\ lastOp' = "l10nResolved" =>
           description' = IF description = "" THEN L10nSignature ELSE description
      /\ (lastOp' = "extractionDone" /\ errors' = errors) =>
           description' = IF description = "" THEN SupportedFile.name
                          ELSE description ]_vars

\* The lookup has resolved and has left the text the user typed meanwhile.
C18_Witness ==
  /\ lastOp = "l10nResolved"
  /\ description = "b" /\ drawCurves # Null


\* -------------------------------------------------------- path construction
\* The number of points in the buffer of the stroke started last.
LastPoints == Len(drawPoints(Fields)) \div 2

\* C21 as stated: the stroke started last is a move command, a line command
\* for its second and for its third point and a curve command for every
\* point from the fourth on.
C21_LinesUpToThirdPoint ==
  drawCurves # Null =>
    LET seg == LastStroke(drawPathString)
    IN /\ seg[1].op = "M"
       /\ \A k \in 2..LastPoints : seg[k].op = IF k <= 3 THEN "L" ELSE "C"

\* C21, amended: the stroke started last is a move command to its first
\* point, a line command to its second point and a curve command for every
\* point from the third on.
C21_PathCommands ==
  drawCurves # Null =>
    LET seg == LastStroke(drawPathString)
        pts == drawPoints(Fields)
    IN /\ seg[1] = MoveTo(pts[1], pts[2])
       /\ LastPoints >= 2 => seg[2] = LineTo(pts[3], pts[4])
       /\ \A k \in 3..LastPoints : seg[k].op = "C"

\* A stroke of four points: a move, a line and two curves.
C21_Witness ==
  /\ drawCurves # Null /\ LastPoints = 4
  /\ LET seg == LastStroke(drawPathString)
     IN <<seg[1].op, seg[2].op, seg[3].op, seg[4].op>> = <<"M", "L", "C", "C">>


\* ------------------------------------------------------- pointer exclusivity
OtherOps == {"otherDown", "otherMove", "otherUp"}

\* One session in which two pointers press, move and release on the drawing
\* surface; an event is labelled as another pointer's when a stroke is going
\* on and the event's pointerId is not the one that started it.
NextPointers ==
  \/ Lifecycle(1, {FALSE}, OtherOps, {})
  \/ \E name \in Tabs : Track(TabClick(name), "tabClick", OtherOps, {})
  \/ Track(ClearSignature, "clearSignature", OtherOps, {})
  \/ \E p \in PointerIds, x \in Coords :
       Track(PointerDown(p, x, 0),
             IF strokeListeners THEN "otherDown" ELSE "pointerDown", OtherOps, {})
  \/ \E p \in PointerIds, x \in Coords :
       Track(PointerMove(x, 0),
             IF p # currentPointerId THEN "otherMove" ELSE "pointerMove",
             OtherOps, {})
  \/ \E p \in PointerIds :
       Track(PointerUp(p),
             IF p # currentPointerId THEN "otherUp" ELSE "pointerUp", OtherOps, {})
  \/ Track(L10nResolved, "l10nResolved", OtherOps, {})

SpecPointers == Init /\ [][NextPointers]_vars

\* C22: while a stroke is going on, an event of a pointer other than the one
\* that started it changes neither the stroke buffer nor the path string and
\* does not end the stroke.
C22_OtherPointerIgnored ==
  [][ lastOp' \in OtherOps =>
        UNCHANGED <<drawCurves, drawPathString, drawPath, strokeListeners,
                    currentPointerId>> ]_vars


\* --------------------------------------------------------- discarded motion
MotionOps == {"moveDiscarded", "moveRecorded"}

\* The position of a motion event lies outside the surface or is the point
\* the stroke recorded last.
Discarded(x, y) ==
  LET pts == drawPoints(Fields)
  IN \/ x < 0 \/ y < 0 \/ x > SurfaceWidth \/ y > SurfaceHeight
     \/ <<x, y>> = <<pts[Len(pts) - 1], pts[Len(pts)]>>

\* One session in which the pointer moves on the top edge of the surface,
\* past its right edge and below its bottom edge, in up to two strokes per
\* drawing.
NextMotion ==
  \/ Lifecycle(1, {FALSE}, MotionOps, {})
  \/ \E name \in Tabs : Track(TabClick(name), "tabClick", MotionOps, {})
  \/ Track(ClearSignature, "clearSignature", MotionOps, {})
  \/ \E p \in PointerIds, x \in Coords :
       Track(SecondStrokeAtMost /\ PointerDown(p, x, 0), "pointerDown",
             MotionOps, {})
  \/ \E x \in Coords, y \in {0, SurfaceHeight + 1} :
       Track(PointerMove(x, y),
             IF Discarded(x, y) THEN "moveDiscarded" ELSE "moveRecorded",
             MotionOps, {})
  \/ \E p \in PointerIds : Track(PointerUp(p), "pointerUp", MotionOps, {})
  \/ Track(L10nResolved, "l10nResolved", MotionOps, {})

SpecMotion == Init /\ [][NextMotion]_vars

\* The points of a stroke buffer, as pairs.
PointsOf(pts) == [j \in 1..(Len(pts) \div 2) |-> <<pts[2 * j - 1], pts[2 * j]>>]

\* C23: a motion outside the surface, or to the point recorded last, changes
\* no field of the session; a motion that is recorded adds exactly its point;
\* so no stroke has two equal consecutive points, and every point after a
\* stroke's first lies within the surface.
C23_DiscardedMotion ==
  [][ /\ lastOp' = "moveDiscarded" => UNCHANGED <<sessionVars, editors, edit>>
      /\ lastOp' = "moveRecorded" =>
           Len(drawPoints(Fields)') = Len(drawPoints(Fields)) + 2
      /\ drawCurves' # Null =>
           \A k \in 1..Len(drawCurves'[1].curves) :
             LET ps == PointsOf(drawCurves'[1].curves[k])
             IN \A j \in 2..Len(ps) :
                  /\ ps[j] # ps[j - 1]
                  /\ ps[j][1] \in 0..SurfaceWidth /\ ps[j][2] \in 0..SurfaceHeight ]_vars

\* A motion to the point recorded last has been discarded in a stroke that
\* had recorded a motion before.
C23_Witness ==
  /\ lastOp = "moveDiscarded" /\ strokeListeners
  /\ Len(drawPoints(Fields)) >= 4


\* ---------------------------------------------------------- listener scoping
\* C24: the live tab-scoped listeners are those of the running activation of
\* the selected tab and no others: none without a selected tab (the dialog
\* is closed), the pointerdown listener only on the draw tab, on the
\* placeholder before the first stroke and on the surface after it, and the
\* motion and release listeners only while a stroke of the draw tab is going
\* on.
C24_ListenersScoped ==
  /\ currentTabAC \in {NoTab, currentTab}
  /\ currentEditor = 0 => currentTabAC = NoTab
  /\ (currentTab # NoTab /\ errors = {}) => currentTabAC = currentTab
  /\ drawListener # "none" <=> currentTabAC = "draw"
  /\ drawListener = "svg" <=> (currentTabAC = "draw" /\ drawCurves # Null)
  /\ strokeListeners =>
       /\ currentTabAC = "draw" /\ drawListener = "svg"
       /\ currentPointerId # 0

\* A stroke was begun and the tab was left before the pointer was released:
\* the stroke's listeners are gone with the tab's.
C24_Witness ==
  /\ currentTab \in Tabs \ {"draw"}
  /\ drawCurves # Null /\ Len(drawPathString) = 1
  /\ ~strokeListeners /\ drawListener = "none"


\* ------------------------------------------------------------- edit preview
\* C25: the preview of the edit dialog holds one path from open() until the
\* dialog's close event has been handled and none otherwise, and #close
\* never finds the preview empty.
C25_OnePreviewPath ==
  /\ edit.signatureSVG = IF edit.active \/ edit.closeQueued THEN 1 ELSE 0
  /\ "editClose" \notin errors

\* The edit dialog is open again after an earlier one changed the description.
C25_Witness ==
  /\ lastOp = "editOpen" /\ edit.active /\ edit.signatureSVG = 1
  /\ \E e \in 1..MaxEditors :
       /\ edit.currentEditor = e
       /\ editors[e].calls[Len(editors[e].calls)].description
            # edit.previousDescription

\* ------------------------------------------------------------ toolbar entries
LoadOps == {"loadSignatures", "reloadSignatures", "signaturesChanged",
            "loadAnswered", "loadFailed"}

\* One session in which the user types a signature and commits it with
\* saving; then the host loads the toolbar entries (never asking for a
\* reload itself) and the store announces changes.  No commit runs while a
\* load is unanswered, so the store holds the same records when a load
\* begins and when it is answered.
LoadsAnswered == \A id \in 1..Len(loader.promises) : loader.promises[id].resolved

NextLoad ==
  \/ Lifecycle(1, {FALSE}, LoadOps, {})
  \/ Track(TypeInput("a"), "typeInput", LoadOps, {})
  \/ LoadsAnswered /\ Commit(FALSE, LoadOps, {})
  \/ Loading({FALSE}, BOOLEAN, LoadOps, {})

SpecLoad == Init /\ [][NextLoad]_vars

C27_OneTracedPath ==
  /\ Len(imageSVG) <= 1
  /\ imagePath # Null =>
       /\ imageSVG = <<imagePath[1]>>
       /\ extractedSignatureData =
            Some([kind |-> "image", id |-> imagePath[1], outline |-> TRUE])
  /\ imagePath = Null => imageSVG = <<>>
  /\ (lastOp = "clearSignature" /\ currentTab = "image") => imageSVG = <<>>
  /\ currentEditor = 0 => imageSVG = <<>>

\* ------------------------------------------------------ stroke buffer and path
\* The positions of the move commands of a path string.
MoveIndexes(q) == {i \in 1..Len(q) : q[i].op = "M"}

\* The commands of the k-th stroke of a path string: from its k-th move
\* command up to the next one.
StrokeCommands(q, k) ==
  LET first == CHOOSE i \in MoveIndexes(q) :
                 Cardinality({j \in MoveIndexes(q) : j <= i}) = k
      later == {i \in MoveIndexes(q) : i > first}
      last == IF later = {} THEN Len(q)
              ELSE (CHOOSE i \in later : \A j \in later : i <= j) - 1
  IN SubSeq(q, first, last)

\* C28: a drawn path exists iff the stroke buffer exists, and shows the path
\* string; the path string has one move command per stroke of the buffer, in
\* the order of the strokes, each to its stroke's first point; a stroke of
\* several points has one further command per point after the first, a
\* stroke of one point has none until its pointerup adds the line to that
\* point; the buffer holds the bounds of the surface.
C28_BufferMatchesPath ==
  /\ drawPath # Null <=> drawCurves # Null
  /\ drawCurves = Null => drawPathString = <<>>
  /\ drawCurves # Null =>
       LET curves == drawCurves[1].curves
           q == drawPathString
       IN /\ drawCurves[1].width = SurfaceWidth
          /\ drawCurves[1].height = SurfaceHeight
          /\ PathShown
          /\ Len(curves) >= 1
          /\ Cardinality(MoveIndexes(q)) = Len(curves)
          /\ q[1].op = "M"
          /\ \A k \in 1..Len(curves) :
               LET seg == StrokeCommands(q, k)
                   pts == PointsOf(curves[k])
                   self == LineTo(pts[1][1], pts[1][2])
               IN /\ seg[1] = MoveTo(pts[1][1], pts[1][2])
                  /\ \A j \in 2..Len(seg) : seg[j].op \in {"L", "C"}
                  /\ IF Len(pts) > 1 THEN Len(seg) = Len(pts)
                     ELSE /\ seg \in {<<seg[1]>>, <<seg[1], self>>}
                          /\ (k = Len(curves) /\ strokeListeners) => Len(seg) = 1
                          /\ ( /\ k = Len(curves) /\ ~strokeListeners
                               /\ lastOp = "pointerUp" ) => Len(seg) = 2

\* A drawing of two strokes: a completed stroke of one point, then a stroke
\* of three points or more.
C28_Witness ==
  /\ drawCurves # Null
  /\ Len(drawCurves[1].curves) = 2
  /\ Len(drawCurves[1].curves[1]) = 2
  /\ Len(StrokeCommands(drawPathString, 1)) = 2
  /\ Len(drawCurves[1].curves[2]) >= 6
  /\ Len(StrokeCommands(drawPathString, 2)) >= 3

====
